---- MODULE Spec2Model ----
(***************************************************************************)
(* TWS-Redis bridge: the producer callbacks of TwsClient, the queue        *)
(* between them and the Redis worker, and the worker loop of main.cpp      *)
(* (redisWorkerLoop) that aggregates BidAsk + AllLast updates per symbol   *)
(* and publishes snapshots and bars.                                       *)
(***************************************************************************)
EXTENDS Integers, Sequences, FiniteSets, TLC

VARIABLES
    m_tickerToSymbol,   \* TwsClient::m_tickerToSymbol   (tickerId -> symbol)
    requests,           \* the requests sent to the feed: <<tickerId, kind>>
    pendingRoute,       \* subscribeTickByTick between its requests and its
                        \* second routing entry: <<tickerId, symbol>>, or <<>>
    queue,              \* moodycamel::ConcurrentQueue<TickUpdate>, one producer
    stateMap,           \* redisWorkerLoop: stateMap (symbol -> InstrumentState)
    g_running,          \* main.cpp: g_running
    workerPc,           \* position of the worker thread in redisWorkerLoop
    nDequeued,          \* number of updates the worker has dequeued
    nPublished,         \* number of calls of RedisPublisher::publish
    nFailed,            \* number of those calls that threw
    lastPublish,        \* the latest call of RedisPublisher::publish
    lastQuote,          \* per symbol, the latest BidAsk update dequeued for it
    lastTrade,          \* per symbol, the latest AllLast update dequeued for it
    nReconnects,        \* number of calls of RedisPublisher::reconnect
    nSubs,              \* number of subscribe calls made so far
    inFlight,           \* the updates try_enqueue accepted and the worker has
                        \* not received yet, in the order they were accepted
    nUnknown,           \* number of "Unknown tickerId" reports of the callbacks
    nDropped,           \* number of "Queue full! Dropping ..." reports
    m_connected,        \* TwsClient::m_connected
    mainPc,             \* position of the main thread in main()
    pumpPc,             \* position of msgThread in its loop
    testState,          \* test_serialization.cpp: the InstrumentState built
    testJson,           \* test_serialization.cpp: what serializeState returned
    nConnects,          \* number of calls of TwsClient::connect that succeeded
    nEDisconnects,      \* number of calls of m_client->eDisconnect()
    nErrors             \* lines TwsClient::error wrote to cout and to cerr

clientVars == <<m_tickerToSymbol, requests, pendingRoute, nSubs>>

workerVars == <<stateMap, workerPc, nDequeued, nPublished, nFailed,
                lastPublish, lastQuote, lastTrade, nReconnects>>

producerVars == <<inFlight, nDropped, nUnknown>>

supervisorVars == <<m_connected, mainPc, pumpPc>>

testVars == <<testState, testJson>>

connectionVars == <<nConnects, nEDisconnects, nErrors>>

vars == <<clientVars, queue, g_running, workerVars, producerVars,
          supervisorVars, testVars, connectionVars>>

----------------------------------------------------------------------------
(* Bounds of the model *)

MaxEvents == 3          \* updates the callbacks hand to the queue in one run
MaxSubs == 1            \* subscribe calls in one run
QueueCapacity == 2      \* slots of the queue (10000 in main.cpp)

(* Inputs *)

Symbols == {"AAPL", "MSFT"}
SubscribeIds == {1001, 1004}
ReqIds == {1001, 11001, 1004, 11004}
Seeds == {1, 2}         \* a tick of the feed: its time and its values
BarSeeds == {1}
Clock == {1500}         \* system_clock::now() in ms
PublishOutcomes == {"delivered", "nosubs", "throw"}  \* of m_redis->publish

----------------------------------------------------------------------------
(* MarketData.h *)

TickUpdateDefault ==
    [tickerId |-> 0, type |-> "BidAsk", timestamp |-> 0,
     bidPrice |-> 0, askPrice |-> 0, bidSize |-> 0, askSize |-> 0,
     lastPrice |-> 0, lastSize |-> 0, pastLimit |-> FALSE,
     open |-> 0, high |-> 0, low |-> 0, close |-> 0,
     volume |-> 0, wap |-> 0, barCount |-> 0]

\* the test has built no state yet
NoState == <<>>

\* TwsClient::error has written nothing to std::cout or std::cerr yet
NoErrors == [cout |-> 0, cerr |-> 0]

\* serializeState has not been called yet
NoJson == [called |-> FALSE, payload |-> <<>>]

InstrumentStateDefault ==
    [symbol |-> "", conId |-> 0, tickerId |-> 0,
     bidPrice |-> 0, askPrice |-> 0, bidSize |-> 0, askSize |-> 0,
     quoteTimestamp |-> 0, hasQuote |-> FALSE,
     lastPrice |-> 0, lastSize |-> 0, tradeTimestamp |-> 0, hasTrade |-> FALSE,
     exchange |-> "", pastLimit |-> FALSE]

----------------------------------------------------------------------------
(* TwsClient.cpp: subscriptions *)

TickByTickOffset == 10000

\* m_tickerToSymbol[tickerId] = symbol
Route(table, tickerId, symbol) ==
    [i \in DOMAIN table \cup {tickerId} |->
        IF i = tickerId THEN symbol ELSE table[i]]

\* the first routing entry, then both requests; the entry of the AllLast
\* request is written after the requests were sent
subscribeTickByTick(symbol, tickerId) ==
    /\ nSubs < MaxSubs
    /\ pendingRoute = <<>>
    /\ nSubs' = nSubs + 1
    /\ m_tickerToSymbol' = Route(m_tickerToSymbol, tickerId, symbol)
    /\ requests' = requests \cup {<<tickerId, "BidAsk">>,
                                  <<tickerId + TickByTickOffset, "AllLast">>}
    /\ pendingRoute' = <<tickerId + TickByTickOffset, symbol>>
    /\ UNCHANGED <<queue, g_running, workerVars, producerVars, supervisorVars,
                   testVars, connectionVars>>

subscribeTickByTickEnd ==
    /\ pendingRoute # <<>>
    /\ m_tickerToSymbol' =
          Route(m_tickerToSymbol, pendingRoute[1], pendingRoute[2])
    /\ pendingRoute' = <<>>
    /\ UNCHANGED <<requests, nSubs, queue, g_running, workerVars,
                   producerVars, supervisorVars, testVars, connectionVars>>

subscribeHistoricalBars(symbol, tickerId) ==
    /\ nSubs < MaxSubs
    /\ pendingRoute = <<>>
    /\ nSubs' = nSubs + 1
    /\ m_tickerToSymbol' = Route(m_tickerToSymbol, tickerId, symbol)
    /\ requests' = requests \cup {<<tickerId, "HistoricalData">>}
    /\ UNCHANGED <<pendingRoute, queue, g_running, workerVars, producerVars,
                   supervisorVars, testVars, connectionVars>>

subscribeRealTimeBars(symbol, tickerId) ==
    /\ nSubs < MaxSubs
    /\ pendingRoute = <<>>
    /\ nSubs' = nSubs + 1
    /\ m_tickerToSymbol' = Route(m_tickerToSymbol, tickerId, symbol)
    /\ requests' = requests \cup {<<tickerId, "RealTimeBars">>}
    /\ UNCHANGED <<pendingRoute, queue, g_running, workerVars, producerVars,
                   supervisorVars, testVars, connectionVars>>

----------------------------------------------------------------------------
(* TwsClient.cpp: callbacks (producer side) *)

\* static_cast<int>(size): keeps every value in the range of int, and every
\* size the feed of this model sends is in that range
StaticCastInt(d) == d

\* a variant that allocates a slot when none is free (ConcurrentQueue::enqueue)
enqueue(q, update) == Append(q, update)

\* a variant that hands an update to the consumer twice
try_enqueue_twice(q, update) ==
    IF Len(q) < QueueCapacity THEN Append(Append(q, update), update) ELSE q

\* a variant that hands the newest update out first
try_enqueue_front(q, update) ==
    IF Len(q) < QueueCapacity THEN <<update>> \o q ELSE q

\* ConcurrentQueue::try_enqueue: never allocates, fails when no slot is free
try_enqueue(q, update) ==
    IF Len(q) < QueueCapacity THEN Append(q, update) ELSE q

BidAskUpdate(reqId, time, bidPrice, askPrice, bidSize, askSize) ==
    [TickUpdateDefault EXCEPT
        !.tickerId = reqId, !.type = "BidAsk", !.timestamp = time * 1000,
        !.bidPrice = bidPrice, !.askPrice = askPrice,
        !.bidSize = StaticCastInt(bidSize), !.askSize = StaticCastInt(askSize)]

\* a variant that also stores the trade price as the bid
AllLastUpdateSetsBid(reqId, time, price, size, pastLimit) ==
    [TickUpdateDefault EXCEPT
        !.tickerId = reqId, !.type = "AllLast", !.timestamp = time * 1000,
        !.lastPrice = price, !.lastSize = StaticCastInt(size),
        !.pastLimit = pastLimit, !.bidPrice = price]

AllLastUpdate(reqId, time, price, size, pastLimit) ==
    [TickUpdateDefault EXCEPT
        !.tickerId = reqId, !.type = "AllLast", !.timestamp = time * 1000,
        !.lastPrice = price, !.lastSize = StaticCastInt(size),
        !.pastLimit = pastLimit]

BarUpdate(reqId, timestamp, open, high, low, close, volume, wap, count) ==
    [TickUpdateDefault EXCEPT
        !.tickerId = reqId, !.type = "Bar", !.timestamp = timestamp,
        !.open = open, !.high = high, !.low = low, !.close = close,
        !.volume = volume, !.wap = wap, !.barCount = count]

\* The feed answers the requests it was sent, under the id of the request;
\* a stray message carries an id the client has no routing entry for.
FeedSends(reqId, kind) ==
    <<reqId, kind>> \in requests \/ reqId \notin DOMAIN m_tickerToSymbol

\* if (it == m_tickerToSymbol.end()) { log "Unknown tickerId"; return; }
Unknown(table, reqId) == reqId \notin DOMAIN table

\* the update reaches try_enqueue and try_enqueue returns true
Accepted(table, q, reqId, update) ==
    reqId \in DOMAIN table /\ try_enqueue(q, update) # q

\* if (!m_queue.try_enqueue(update)) std::cerr << "Queue full! Dropping ..."
Dropped(table, q, reqId, update) ==
    reqId \in DOMAIN table /\ try_enqueue(q, update) = q

\* a variant that enqueues the update without looking the id up
CallbackUnchecked(reqId, kind, update) ==
    /\ FeedSends(reqId, kind)
    /\ nDequeued + Len(queue) + nDropped + nUnknown < MaxEvents
    /\ queue' = try_enqueue(queue, update)
    /\ inFlight' = IF try_enqueue(queue, update) # queue
                     THEN Append(inFlight, update)
                     ELSE inFlight
    /\ nDropped' = IF try_enqueue(queue, update) = queue
                     THEN nDropped + 1
                     ELSE nDropped
    /\ nUnknown' = IF Unknown(m_tickerToSymbol, reqId)
                     THEN nUnknown + 1
                     ELSE nUnknown
    /\ UNCHANGED <<clientVars, g_running, workerVars, supervisorVars,
                   testVars, connectionVars>>

\* a variant that waits for a free slot instead of dropping the update
CallbackBlocking(reqId, kind, update) ==
    /\ FeedSends(reqId, kind)
    /\ nDequeued + Len(queue) + nDropped + nUnknown < MaxEvents
    /\ ~Dropped(m_tickerToSymbol, queue, reqId, update)
    /\ queue' = IF reqId \in DOMAIN m_tickerToSymbol
                  THEN try_enqueue(queue, update)
                  ELSE queue
    /\ inFlight' = IF Accepted(m_tickerToSymbol, queue, reqId, update)
                     THEN Append(inFlight, update)
                     ELSE inFlight
    /\ UNCHANGED <<clientVars, g_running, workerVars, nDropped, nUnknown,
                   supervisorVars, testVars, connectionVars>>

Callback(reqId, kind, update) ==
    /\ FeedSends(reqId, kind)
    /\ nDequeued + Len(queue) + nDropped + nUnknown < MaxEvents
    /\ queue' = IF reqId \in DOMAIN m_tickerToSymbol
                  THEN try_enqueue(queue, update)
                  ELSE queue
    /\ inFlight' = IF Accepted(m_tickerToSymbol, queue, reqId, update)
                     THEN Append(inFlight, update)
                     ELSE inFlight
    /\ nDropped' = IF Dropped(m_tickerToSymbol, queue, reqId, update)
                     THEN nDropped + 1
                     ELSE nDropped
    /\ nUnknown' = IF Unknown(m_tickerToSymbol, reqId)
                     THEN nUnknown + 1
                     ELSE nUnknown
    /\ UNCHANGED <<clientVars, g_running, workerVars, supervisorVars,
                   testVars, connectionVars>>

tickByTickBidAsk(reqId, v) ==
    Callback(reqId, "BidAsk",
             BidAskUpdate(reqId, v, 100 + v, 200 + v, 300 + v, 400 + v))

tickByTickAllLast(reqId, v) ==
    Callback(reqId, "AllLast",
             AllLastUpdate(reqId, v, 500 + v, 600 + v, v = 2))

\* the bar's timestamp is the wall clock at the callback (now, in ms)
historicalData(reqId, now, v) ==
    Callback(reqId, "HistoricalData",
             BarUpdate(reqId, now, 700 + v, 710 + v, 720 + v, 730 + v,
                       740 + v, 750 + v, 760 + v))

realtimeBar(reqId, v) ==
    Callback(reqId, "RealTimeBars",
             BarUpdate(reqId, v * 1000, 700 + v, 710 + v, 720 + v,
                       730 + v, 740 + v, 750 + v, 760 + v))

----------------------------------------------------------------------------
(* Serialization.h *)

\* a variant that takes the earlier of the two
MaxSwapped(a, b) == IF a < b THEN a ELSE b

\* a variant that takes the quote's time for the snapshot
MaxLeft(a, b) == a

\* std::max(state.quoteTimestamp, state.tradeTimestamp)
Max(a, b) == IF a < b THEN b ELSE a

\* a variant that writes an empty document for a state that is not emit-ready
serializeStateGated(state) ==
    IF state.hasQuote /\ state.hasTrade
      THEN [instrument |-> state.symbol,
            conId      |-> state.conId,
            timestamp  |-> Max(state.quoteTimestamp, state.tradeTimestamp),
            price      |-> [bid |-> state.bidPrice, ask |-> state.askPrice,
                            last |-> state.lastPrice],
            size       |-> [bid |-> state.bidSize, ask |-> state.askSize,
                            last |-> state.lastSize],
            timestamps |-> [quote |-> state.quoteTimestamp,
                            trade |-> state.tradeTimestamp],
            exchange   |-> state.exchange,
            tickAttrib |-> [pastLimit |-> state.pastLimit]]
      ELSE <<>>

serializeState(state) ==
    [instrument |-> state.symbol,
     conId      |-> state.conId,
     timestamp  |-> Max(state.quoteTimestamp, state.tradeTimestamp),
     price      |-> [bid |-> state.bidPrice, ask |-> state.askPrice,
                     last |-> state.lastPrice],
     size       |-> [bid |-> state.bidSize, ask |-> state.askSize,
                     last |-> state.lastSize],
     timestamps |-> [quote |-> state.quoteTimestamp,
                     trade |-> state.tradeTimestamp],
     exchange   |-> state.exchange,
     tickAttrib |-> [pastLimit |-> state.pastLimit]]

\* called by the worker, defined in no file of src/: symbol, OHLC, volume,
\* weighted average price, trade count and the bar's timestamp
serializeBarData(symbol, update) ==
    [instrument |-> symbol, timestamp |-> update.timestamp,
     open |-> update.open, high |-> update.high, low |-> update.low,
     close |-> update.close, volume |-> update.volume, wap |-> update.wap,
     count |-> update.barCount]

----------------------------------------------------------------------------
(* main.cpp: redisWorkerLoop *)

\* the if/else ladder that derives the symbol from the tickerId
LadderSymbol(tickerId) ==
    IF tickerId = 1001 \/ tickerId = 11001 THEN "AAPL"
    ELSE IF tickerId = 1002 \/ tickerId = 11002 THEN "SPY"
    ELSE IF tickerId = 1003 \/ tickerId = 11003 THEN "TSLA"
    ELSE IF tickerId = 2001 THEN "SPY"
    ELSE IF tickerId = 3001 THEN "SPY"
    ELSE "UNKNOWN"

\* a variant that works on a fresh local InstrumentState for every update
FetchOrCreateFresh(map, symbol) == InstrumentStateDefault

\* auto& state = stateMap[symbol]: fetch, or default-construct and insert
FetchOrCreate(map, symbol) ==
    IF symbol \in DOMAIN map THEN map[symbol] ELSE InstrumentStateDefault

\* state.symbol = symbol; state.tickerId = update.tickerId;
Identify(state, symbol, update) ==
    [state EXCEPT !.symbol = symbol, !.tickerId = update.tickerId]

\* a variant that copies every tick field of the update, set or not
MergeBidAskAllFields(state, update) ==
    [state EXCEPT !.bidPrice = update.bidPrice, !.askPrice = update.askPrice,
                  !.bidSize = update.bidSize, !.askSize = update.askSize,
                  !.quoteTimestamp = update.timestamp, !.hasQuote = TRUE,
                  !.lastPrice = update.lastPrice, !.lastSize = update.lastSize,
                  !.pastLimit = update.pastLimit]

\* a variant that fills the quote half once and keeps it
MergeBidAskKeepFirst(state, update) ==
    IF state.hasQuote THEN state
    ELSE [state EXCEPT !.bidPrice = update.bidPrice, !.askPrice = update.askPrice,
                       !.bidSize = update.bidSize, !.askSize = update.askSize,
                       !.quoteTimestamp = update.timestamp, !.hasQuote = TRUE]

MergeBidAsk(state, update) ==
    [state EXCEPT !.bidPrice = update.bidPrice, !.askPrice = update.askPrice,
                  !.bidSize = update.bidSize, !.askSize = update.askSize,
                  !.quoteTimestamp = update.timestamp, !.hasQuote = TRUE]

MergeAllLast(state, update) ==
    [state EXCEPT !.lastPrice = update.lastPrice, !.lastSize = update.lastSize,
                  !.tradeTimestamp = update.timestamp, !.hasTrade = TRUE,
                  !.pastLimit = update.pastLimit]

Merge(state, update) ==
    IF update.type = "BidAsk" THEN MergeBidAsk(state, update)
    ELSE IF update.type = "AllLast" THEN MergeAllLast(state, update)
    ELSE state

\* a variant that emits as soon as one half is there
ReadyToEmitEither(state) == state.hasQuote \/ state.hasTrade

\* if (state.hasQuote && state.hasTrade)
ReadyToEmit(state) == state.hasQuote /\ state.hasTrade

TickChannel(symbol) == <<"TWS:TICKS:", symbol>>

BarChannel(symbol) == <<"TWS:BARS:", symbol>>

\* the state of the symbol after the update was merged into it
StateAfter(map, update) ==
    Merge(Identify(FetchOrCreate(map, LadderSymbol(update.tickerId)),
                   LadderSymbol(update.tickerId), update),
          update)

StateMapAfter(map, update) ==
    [s \in DOMAIN map \cup {LadderSymbol(update.tickerId)} |->
        IF s = LadderSymbol(update.tickerId) THEN StateAfter(map, update)
        ELSE map[s]]

\* a variant that serializes the state as it was before the update was merged
EmissionsBeforeMerge(map, update) ==
    IF update.type = "Bar"
      THEN <<[channel |-> BarChannel(LadderSymbol(update.tickerId)),
              message |-> serializeBarData(LadderSymbol(update.tickerId),
                                           update)]>>
    ELSE IF ReadyToEmit(StateAfter(map, update))
      THEN <<[channel |-> TickChannel(LadderSymbol(update.tickerId)),
              message |-> serializeState(
                  FetchOrCreate(map, LadderSymbol(update.tickerId)))]>>
    ELSE <<>>

\* a variant that emits a snapshot only on the update that completes the state
EmissionsOnEdge(map, update) ==
    IF update.type = "Bar"
      THEN <<[channel |-> BarChannel(LadderSymbol(update.tickerId)),
              message |-> serializeBarData(LadderSymbol(update.tickerId),
                                           update)]>>
    ELSE IF /\ ReadyToEmit(StateAfter(map, update))
            /\ ~ReadyToEmit(FetchOrCreate(map, LadderSymbol(update.tickerId)))
      THEN <<[channel |-> TickChannel(LadderSymbol(update.tickerId)),
              message |-> serializeState(StateAfter(map, update))]>>
    ELSE <<>>

\* a variant whose Bar branch lacks the continue and falls through to the
\* snapshot of the symbol
EmissionsFallThrough(map, update) ==
    IF update.type = "Bar"
      THEN <<[channel |-> BarChannel(LadderSymbol(update.tickerId)),
              message |-> serializeBarData(LadderSymbol(update.tickerId),
                                           update)]>>
           \o (IF ReadyToEmit(StateAfter(map, update))
                 THEN <<[channel |-> TickChannel(LadderSymbol(update.tickerId)),
                         message |-> serializeState(StateAfter(map, update))]>>
                 ELSE <<>>)
    ELSE IF ReadyToEmit(StateAfter(map, update))
      THEN <<[channel |-> TickChannel(LadderSymbol(update.tickerId)),
              message |-> serializeState(StateAfter(map, update))]>>
    ELSE <<>>

\* the calls of redis.publish made while processing the update
Emissions(map, update) ==
    IF update.type = "Bar"
      THEN <<[channel |-> BarChannel(LadderSymbol(update.tickerId)),
              message |-> serializeBarData(LadderSymbol(update.tickerId),
                                           update)]>>
    ELSE IF ReadyToEmit(StateAfter(map, update))
      THEN <<[channel |-> TickChannel(LadderSymbol(update.tickerId)),
              message |-> serializeState(StateAfter(map, update))]>>
    ELSE <<>>

\* a variant without the try/catch around redis.publish: the exception
\* leaves redisWorkerLoop and ends the worker thread
AfterPublishUncaught(outcome) ==
    IF outcome = "throw" THEN "stopped" ELSE "check"

\* where the worker is after redis.publish returned or threw: both
\* emissions sit in try { } catch (const std::exception&)
AfterPublish(outcome) == "check"

\* a variant that throws when the message reached no subscriber
publishStrict(outcome) ==
    IF outcome \in {"throw", "nosubs"} THEN "threw" ELSE "returned"

\* RedisPublisher::publish: the subscriber count is dropped, an exception
\* is logged and rethrown
publish(outcome) == IF outcome = "throw" THEN "threw" ELSE "returned"

\* a variant whose catch block calls redis.publish a second time
PublishCallsRetry(emissions, outcome) ==
    IF outcome = "throw" THEN 2 * Len(emissions) ELSE Len(emissions)

\* the number of calls of redis.publish for the emissions of one update:
\* the catch block only logs, it does not call publish again
PublishCalls(emissions, outcome) == Len(emissions)

\* the number of calls of redis.reconnect made by the catch block: none
ReconnectCalls(outcome) == 0

\* the number of subscribers the sink delivered the message to, which
\* m_redis->publish returns and RedisPublisher::publish does not look at
Receivers(outcome) == IF outcome = "delivered" THEN 1 ELSE 0

Attempt(emission, outcome, k) ==
    [channel |-> emission.channel, message |-> emission.message,
     result |-> publish(outcome), event |-> k,
     receivers |-> Receivers(outcome)]

NoPublish ==
    [channel |-> <<"none", "">>, message |-> <<>>, result |-> "none",
     event |-> 0, receivers |-> 0]

\* the latest update of the given type dequeued for each symbol
LastSeenAfter(seen, update, type) ==
    IF update.type = type
      THEN [s \in DOMAIN seen \cup {LadderSymbol(update.tickerId)} |->
              IF s = LadderSymbol(update.tickerId) THEN update ELSE seen[s]]
      ELSE seen

\* seq without the first of its elements equal to e
RECURSIVE RemoveFirst(_, _)
RemoveFirst(seq, e) ==
    IF seq = <<>> THEN <<>>
    ELSE IF Head(seq) = e THEN Tail(seq)
    ELSE <<Head(seq)>> \o RemoveFirst(Tail(seq), e)

\* a variant that drains the queue before it stops
WorkerCheckFlush ==
    /\ workerPc = "check"
    /\ workerPc' = IF g_running \/ queue # <<>> THEN "dequeue" ELSE "stopped"
    /\ UNCHANGED <<clientVars, queue, g_running, stateMap, nDequeued,
                   nPublished, nFailed, lastPublish, lastQuote, lastTrade,
                   nReconnects, producerVars, supervisorVars, testVars,
                   connectionVars>>

\* while (running.load())
WorkerCheck ==
    /\ workerPc = "check"
    /\ workerPc' = IF g_running THEN "dequeue" ELSE "stopped"
    /\ UNCHANGED <<clientVars, queue, g_running, stateMap, nDequeued,
                   nPublished, nFailed, lastPublish, lastQuote, lastTrade,
                   nReconnects, producerVars, supervisorVars, testVars,
                   connectionVars>>

\* try_dequeue failed: sleep 100us and test the flag again
WorkerIdle ==
    /\ workerPc = "dequeue"
    /\ queue = <<>>
    /\ workerPc' = "check"
    /\ UNCHANGED <<clientVars, queue, g_running, stateMap, nDequeued,
                   nPublished, nFailed, lastPublish, lastQuote, lastTrade,
                   nReconnects, producerVars, supervisorVars, testVars,
                   connectionVars>>

WorkerProcess(outcome) ==
    /\ workerPc = "dequeue"
    /\ queue # <<>>
    /\ queue' = Tail(queue)
    /\ nDequeued' = nDequeued + 1
    /\ lastQuote' = LastSeenAfter(lastQuote, Head(queue), "BidAsk")
    /\ lastTrade' = LastSeenAfter(lastTrade, Head(queue), "AllLast")
    /\ stateMap' = StateMapAfter(stateMap, Head(queue))
    /\ nPublished' = nPublished
                      + PublishCalls(Emissions(stateMap, Head(queue)), outcome)
    /\ IF Emissions(stateMap, Head(queue)) = <<>>
         THEN /\ lastPublish' = lastPublish
              /\ nFailed' = nFailed
              /\ nReconnects' = nReconnects
              /\ workerPc' = "check"
         ELSE /\ lastPublish' = Attempt(Emissions(stateMap, Head(queue))[1],
                                        outcome, nDequeued + 1)
              /\ nFailed' = IF publish(outcome) = "threw"
                              THEN nFailed + 1 ELSE nFailed
              /\ nReconnects' = nReconnects + ReconnectCalls(outcome)
              /\ workerPc' = AfterPublish(outcome)
    /\ inFlight' = RemoveFirst(inFlight, Head(queue))
    /\ UNCHANGED <<clientVars, g_running, nDropped, nUnknown, supervisorVars,
                   testVars, connectionVars>>

signalHandler ==
    /\ g_running
    /\ g_running' = FALSE
    /\ UNCHANGED <<clientVars, queue, workerVars, producerVars,
                   supervisorVars, testVars, connectionVars>>

----------------------------------------------------------------------------

Init ==
    /\ m_tickerToSymbol = [i \in {} |-> ""]
    /\ requests = {}
    /\ pendingRoute = <<>>
    /\ queue = <<>>
    /\ stateMap = [s \in {} |-> InstrumentStateDefault]
    /\ g_running = TRUE
    /\ workerPc = "check"
    /\ nDequeued = 0
    /\ nPublished = 0
    /\ nFailed = 0
    /\ nReconnects = 0
    /\ lastPublish = NoPublish
    /\ lastQuote = [s \in {} |-> TickUpdateDefault]
    /\ lastTrade = [s \in {} |-> TickUpdateDefault]
    /\ nSubs = 0
    /\ inFlight = <<>>
    /\ nDropped = 0
    /\ nUnknown = 0
    /\ m_connected = TRUE
    /\ mainPc = "loop"
    /\ pumpPc = "check"
    /\ testState = NoState
    /\ testJson = NoJson
    /\ nConnects = 1
    /\ nEDisconnects = 0
    /\ nErrors = NoErrors

Next ==
    \/ \E s \in Symbols, i \in SubscribeIds : subscribeTickByTick(s, i)
    \/ subscribeTickByTickEnd
    \/ \E s \in Symbols, i \in SubscribeIds : subscribeHistoricalBars(s, i)
    \/ \E s \in Symbols, i \in SubscribeIds : subscribeRealTimeBars(s, i)
    \/ \E r \in ReqIds, v \in Seeds : tickByTickBidAsk(r, v)
    \/ \E r \in ReqIds, v \in Seeds : tickByTickAllLast(r, v)
    \/ \E r \in ReqIds, now \in Clock, v \in BarSeeds :
          historicalData(r, now, v)
    \/ \E r \in ReqIds, v \in BarSeeds : realtimeBar(r, v)
    \/ WorkerCheck
    \/ WorkerIdle
    \/ \E o \in PublishOutcomes : WorkerProcess(o)
    \/ signalHandler

Spec == Init /\ [][Next]_vars

\* The bridge after subscribeTickByTick("AAPL", 1001) has returned: the
\* message thread is the one producer of the queue, the worker its one
\* consumer.
Subscribed ==
    /\ m_tickerToSymbol = (1001 :> "AAPL") @@ (11001 :> "AAPL")
    /\ requests = {<<1001, "BidAsk">>, <<11001, "AllLast">>}
    /\ pendingRoute = <<>>
    /\ nSubs = 1
    /\ queue = <<>>
    /\ stateMap = [s \in {} |-> InstrumentStateDefault]
    /\ g_running = TRUE
    /\ workerPc = "check"
    /\ nDequeued = 0
    /\ nPublished = 0
    /\ nFailed = 0
    /\ nReconnects = 0
    /\ lastPublish = NoPublish
    /\ lastQuote = [s \in {} |-> TickUpdateDefault]
    /\ lastTrade = [s \in {} |-> TickUpdateDefault]
    /\ inFlight = <<>>
    /\ nDropped = 0
    /\ nUnknown = 0
    /\ m_connected = TRUE
    /\ mainPc = "loop"
    /\ pumpPc = "check"
    /\ testState = NoState
    /\ testJson = NoJson
    /\ nConnects = 1
    /\ nEDisconnects = 0
    /\ nErrors = NoErrors

Producer ==
    \/ \E r \in ReqIds, v \in Seeds : tickByTickBidAsk(r, v)
    \/ \E r \in ReqIds, v \in Seeds : tickByTickAllLast(r, v)

Consumer ==
    \/ WorkerCheck
    \/ WorkerIdle
    \/ \E o \in PublishOutcomes : WorkerProcess(o)

\* The worker thread is scheduled as long as it has a step to take: its
\* loop sleeps 100us at most and redis.publish returns or throws.
QueueSpec ==
    /\ Subscribed
    /\ [][Producer \/ Consumer \/ signalHandler]_vars
    /\ WF_vars(Consumer)

\* The bridge with ticks and bars of one symbol: after
\* subscribeTickByTick("SPY", 1002), subscribeHistoricalBars("SPY", 2001, ...)
\* and subscribeRealTimeBars("SPY", 3001, ...) have returned.
SpySubscribed ==
    /\ m_tickerToSymbol = (1002 :> "SPY") @@ (11002 :> "SPY")
                            @@ (2001 :> "SPY") @@ (3001 :> "SPY")
    /\ requests = {<<1002, "BidAsk">>, <<11002, "AllLast">>,
                   <<2001, "HistoricalData">>, <<3001, "RealTimeBars">>}
    /\ pendingRoute = <<>>
    /\ nSubs = 3
    /\ queue = <<>>
    /\ stateMap = [s \in {} |-> InstrumentStateDefault]
    /\ g_running = TRUE
    /\ workerPc = "check"
    /\ nDequeued = 0
    /\ nPublished = 0
    /\ nFailed = 0
    /\ nReconnects = 0
    /\ lastPublish = NoPublish
    /\ lastQuote = [s \in {} |-> TickUpdateDefault]
    /\ lastTrade = [s \in {} |-> TickUpdateDefault]
    /\ inFlight = <<>>
    /\ nDropped = 0
    /\ nUnknown = 0
    /\ m_connected = TRUE
    /\ mainPc = "loop"
    /\ pumpPc = "check"
    /\ testState = NoState
    /\ testJson = NoJson
    /\ nConnects = 1
    /\ nEDisconnects = 0
    /\ nErrors = NoErrors

SpyFeed ==
    \/ \E v \in Seeds : tickByTickBidAsk(1002, v)
    \/ \E v \in Seeds : tickByTickAllLast(11002, v)
    \/ \E now \in Clock, v \in BarSeeds : historicalData(2001, now, v)
    \/ \E v \in BarSeeds : realtimeBar(3001, v)

MixedSpec == SpySubscribed /\ [][SpyFeed \/ Consumer]_vars

----------------------------------------------------------------------------
(* test_serialization.cpp: serializeState called on a state built by hand *)

TestSymbols == {"AAPL", "TEST"}
TestTimes == {-1, 0, 1, 2}
TestPrices == {0, 171}

\* the states the test builds: a default state with its symbol set, and
\* states with prices, timestamps and the two flags set
TestStates ==
    {[InstrumentStateDefault EXCEPT
        !.symbol = s, !.quoteTimestamp = q, !.tradeTimestamp = t,
        !.bidPrice = p, !.askPrice = 2 * p, !.lastPrice = 3 * p,
        !.hasQuote = h, !.hasTrade = h] :
     s \in TestSymbols, q \in TestTimes, t \in TestTimes,
     p \in TestPrices, h \in BOOLEAN}

\* InstrumentState state; state.symbol = ...; (the bridge itself not started)
TestInit ==
    /\ m_tickerToSymbol = [i \in {} |-> ""]
    /\ requests = {}
    /\ pendingRoute = <<>>
    /\ nSubs = 0
    /\ queue = <<>>
    /\ stateMap = [s \in {} |-> InstrumentStateDefault]
    /\ g_running = TRUE
    /\ workerPc = "check"
    /\ nDequeued = 0
    /\ nPublished = 0
    /\ nFailed = 0
    /\ nReconnects = 0
    /\ lastPublish = NoPublish
    /\ lastQuote = [s \in {} |-> TickUpdateDefault]
    /\ lastTrade = [s \in {} |-> TickUpdateDefault]
    /\ inFlight = <<>>
    /\ nDropped = 0
    /\ nUnknown = 0
    /\ m_connected = TRUE
    /\ mainPc = "loop"
    /\ pumpPc = "check"
    /\ testState \in TestStates
    /\ testJson = NoJson
    /\ nConnects = 1
    /\ nEDisconnects = 0
    /\ nErrors = NoErrors

\* std::string json = serializeState(state);
TestSerialize ==
    /\ ~testJson.called
    /\ testJson' = [called |-> TRUE, payload |-> serializeState(testState)]
    /\ UNCHANGED <<clientVars, queue, g_running, workerVars, producerVars,
                   supervisorVars, testState,
                   connectionVars>>

SerializeSpec == TestInit /\ [][TestSerialize]_vars

----------------------------------------------------------------------------
(* main.cpp: main, from the start of msgThread to the end of the shutdown *)
(* sequence; TwsClient.cpp: connection state                              *)

\* TwsClient::isConnected; the socket of m_client is open from connect to
\* the moment m_connected is cleared
isConnected == m_connected

\* the server closed the connection (called on the EReader thread)
connectionClosed ==
    /\ m_connected
    /\ m_connected' = FALSE
    /\ UNCHANGED <<clientVars, queue, g_running, workerVars, producerVars,
                   mainPc, pumpPc, testVars, connectionVars>>

\* while (g_running.load() && client.isConnected()) sleep_for(100ms);
MainMonitor ==
    /\ mainPc = "loop"
    /\ ~(g_running /\ isConnected)
    /\ mainPc' = "disconnect"
    /\ UNCHANGED <<clientVars, queue, g_running, workerVars, producerVars,
                   m_connected, pumpPc, testVars, connectionVars>>

\* a variant of disconnect() that closes the socket whatever the flag says
eDisconnectCallsAlways(connected) == 1

\* if (m_connected.load()) { m_connected.store(false); eDisconnect(); }:
\* the number of calls of eDisconnect one call of disconnect() makes
eDisconnectCalls(connected) == IF connected THEN 1 ELSE 0

\* client.disconnect(): clears m_connected when it is set
disconnect ==
    /\ mainPc = "disconnect"
    /\ m_connected' = FALSE
    /\ nEDisconnects' = nEDisconnects + eDisconnectCalls(m_connected)
    /\ mainPc' = "joinMsg"
    /\ UNCHANGED <<clientVars, queue, g_running, workerVars, producerVars,
                   pumpPc, testVars, nConnects, nErrors>>

\* msgThread.join()
MainJoinMsg ==
    /\ mainPc = "joinMsg"
    /\ pumpPc = "done"
    /\ mainPc' = "joinWorker"
    /\ UNCHANGED <<clientVars, queue, g_running, workerVars, producerVars,
                   m_connected, pumpPc, testVars, connectionVars>>

\* workerThread.join()
MainJoinWorker ==
    /\ mainPc = "joinWorker"
    /\ workerPc = "stopped"
    /\ mainPc' = "done"
    /\ UNCHANGED <<clientVars, queue, g_running, workerVars, producerVars,
                   m_connected, pumpPc, testVars, connectionVars>>

MainThread == MainMonitor \/ disconnect \/ MainJoinMsg \/ MainJoinWorker

\* msgThread: while (g_running.load() && client.isConnected())
MsgLoop ==
    /\ pumpPc = "check"
    /\ pumpPc' = IF g_running /\ isConnected THEN "call" ELSE "done"
    /\ UNCHANGED <<clientVars, queue, g_running, workerVars, producerVars,
                   m_connected, mainPc, testVars, connectionVars>>

\* processMessages: returns at once when not connected, else waits for the
\* signal of the EReader thread
processMessages ==
    /\ pumpPc = "call"
    /\ pumpPc' = IF isConnected THEN "wait" ELSE "check"
    /\ UNCHANGED <<clientVars, queue, g_running, workerVars, producerVars,
                   m_connected, mainPc, testVars, connectionVars>>

\* waitForSignal() returned: processMsgs() when still connected
waitForSignal ==
    /\ pumpPc = "wait"
    /\ pumpPc' = IF isConnected THEN "process" ELSE "check"
    /\ UNCHANGED <<clientVars, queue, g_running, workerVars, producerVars,
                   m_connected, mainPc, testVars, connectionVars>>

\* m_reader->processMsgs() calls the callbacks of the messages received
processMsgs ==
    /\ pumpPc = "process"
    /\ \/ \E now \in Clock, v \in BarSeeds : historicalData(2001, now, v)
       \/ \E v \in BarSeeds : realtimeBar(3001, v)

processMsgsEnd ==
    /\ pumpPc = "process"
    /\ pumpPc' = "check"
    /\ UNCHANGED <<clientVars, queue, g_running, workerVars, producerVars,
                   m_connected, mainPc, testVars, connectionVars>>

MsgThread == MsgLoop \/ processMessages \/ waitForSignal \/ processMsgsEnd

\* main() after subscribeHistoricalBars("SPY", 2001, ...) and
\* subscribeRealTimeBars("SPY", 3001, ...), msgThread just started
MainSubscribed ==
    /\ m_tickerToSymbol = (2001 :> "SPY") @@ (3001 :> "SPY")
    /\ requests = {<<2001, "HistoricalData">>, <<3001, "RealTimeBars">>}
    /\ pendingRoute = <<>>
    /\ nSubs = 2
    /\ queue = <<>>
    /\ stateMap = [s \in {} |-> InstrumentStateDefault]
    /\ g_running = TRUE
    /\ workerPc = "check"
    /\ nDequeued = 0
    /\ nPublished = 0
    /\ nFailed = 0
    /\ nReconnects = 0
    /\ lastPublish = NoPublish
    /\ lastQuote = [s \in {} |-> TickUpdateDefault]
    /\ lastTrade = [s \in {} |-> TickUpdateDefault]
    /\ inFlight = <<>>
    /\ nDropped = 0
    /\ nUnknown = 0
    /\ m_connected = TRUE
    /\ mainPc = "loop"
    /\ pumpPc = "check"
    /\ testState = NoState
    /\ testJson = NoJson
    /\ nConnects = 1
    /\ nEDisconnects = 0
    /\ nErrors = NoErrors

\* Every thread is scheduled as long as it has a step to take, and the
\* EReader thread signals msgThread when the socket closes; SIGINT and
\* SIGTERM may never come.
SupervisorSpec ==
    /\ MainSubscribed
    /\ [][\/ MainThread \/ MsgThread \/ processMsgs \/ Consumer
          \/ connectionClosed \/ signalHandler]_vars
    /\ WF_vars(MainThread)
    /\ WF_vars(MsgThread)
    /\ WF_vars(Consumer)

----------------------------------------------------------------------------
(* main.cpp: main, from the start of workerThread to the monitor loop *)

\* a variant of the failure branch that joins the worker without clearing
\* the running flag
MainConnectFailedNoStore ==
    /\ mainPc = "connectFailed"
    /\ mainPc' = "joinWorkerFailed"
    /\ UNCHANGED <<clientVars, queue, g_running, workerVars, producerVars,
                   m_connected, pumpPc, testVars, connectionVars>>

\* TwsClient::connect: eConnect failed and connect returns false, or the
\* EReader thread is started and m_connected set
connect(success) ==
    /\ mainPc = "connect"
    /\ m_connected' = (m_connected \/ success)
    /\ nConnects' = IF success THEN nConnects + 1 ELSE nConnects
    /\ mainPc' = IF success THEN "subscribeHistorical" ELSE "connectFailed"
    /\ UNCHANGED <<clientVars, queue, g_running, workerVars, producerVars,
                   pumpPc, testVars, nEDisconnects, nErrors>>

\* if (!client.connect(...)) { g_running.store(false);
MainConnectFailed ==
    /\ mainPc = "connectFailed"
    /\ g_running' = FALSE
    /\ mainPc' = "joinWorkerFailed"
    /\ UNCHANGED <<clientVars, queue, workerVars, producerVars,
                   m_connected, pumpPc, testVars, connectionVars>>

\* workerThread.join(); return 1; } and ~TwsClient, which calls disconnect()
MainExitFailed ==
    /\ mainPc = "joinWorkerFailed"
    /\ workerPc = "stopped"
    /\ mainPc' = "exit1"
    /\ m_connected' = FALSE
    /\ nEDisconnects' = nEDisconnects + eDisconnectCalls(m_connected)
    /\ UNCHANGED <<clientVars, queue, g_running, workerVars, producerVars,
                   pumpPc, testVars, nConnects, nErrors>>

\* client.subscribeHistoricalBars("SPY", 2001, "3600 S", "5 mins");
MainSubscribeHistorical ==
    /\ mainPc = "subscribeHistorical"
    /\ nSubs' = nSubs + 1
    /\ m_tickerToSymbol' = Route(m_tickerToSymbol, 2001, "SPY")
    /\ requests' = requests \cup {<<2001, "HistoricalData">>}
    /\ mainPc' = "subscribeRealTime"
    /\ UNCHANGED <<pendingRoute, queue, g_running, workerVars, producerVars,
                   m_connected, pumpPc, testVars, connectionVars>>

\* client.subscribeRealTimeBars("SPY", 3001, 5, "TRADES");
MainSubscribeRealTime ==
    /\ mainPc = "subscribeRealTime"
    /\ nSubs' = nSubs + 1
    /\ m_tickerToSymbol' = Route(m_tickerToSymbol, 3001, "SPY")
    /\ requests' = requests \cup {<<3001, "RealTimeBars">>}
    /\ mainPc' = "startMsgThread"
    /\ UNCHANGED <<pendingRoute, queue, g_running, workerVars, producerVars,
                   m_connected, pumpPc, testVars, connectionVars>>

\* std::thread msgThread([&client]() { ... });
MainStartMsgThread ==
    /\ mainPc = "startMsgThread"
    /\ pumpPc = "unstarted"
    /\ pumpPc' = "check"
    /\ mainPc' = "loop"
    /\ UNCHANGED <<clientVars, queue, g_running, workerVars, producerVars,
                   m_connected, testVars, connectionVars>>

MainStartup ==
    \/ \E success \in BOOLEAN : connect(success)
    \/ MainConnectFailed
    \/ MainExitFailed
    \/ MainSubscribeHistorical
    \/ MainSubscribeRealTime
    \/ MainStartMsgThread

\* main() after std::thread workerThread(...) and TwsClient client(queue)
MainStarted ==
    /\ m_tickerToSymbol = [i \in {} |-> ""]
    /\ requests = {}
    /\ pendingRoute = <<>>
    /\ nSubs = 0
    /\ queue = <<>>
    /\ stateMap = [s \in {} |-> InstrumentStateDefault]
    /\ g_running = TRUE
    /\ workerPc = "check"
    /\ nDequeued = 0
    /\ nPublished = 0
    /\ nFailed = 0
    /\ nReconnects = 0
    /\ lastPublish = NoPublish
    /\ lastQuote = [s \in {} |-> TickUpdateDefault]
    /\ lastTrade = [s \in {} |-> TickUpdateDefault]
    /\ inFlight = <<>>
    /\ nDropped = 0
    /\ nUnknown = 0
    /\ m_connected = FALSE
    /\ mainPc = "connect"
    /\ pumpPc = "unstarted"
    /\ testState = NoState
    /\ testJson = NoJson
    /\ nConnects = 0
    /\ nEDisconnects = 0
    /\ nErrors = NoErrors

\* Every thread is scheduled as long as it has a step to take; SIGINT and
\* SIGTERM may come at any time or never.
StartupSpec ==
    /\ MainStarted
    /\ [][\/ MainStartup \/ MainThread \/ MsgThread \/ processMsgs
          \/ Consumer \/ connectionClosed \/ signalHandler]_vars
    /\ WF_vars(MainStartup)
    /\ WF_vars(MainThread)
    /\ WF_vars(MsgThread)
    /\ WF_vars(Consumer)

----------------------------------------------------------------------------
(* TwsClient.cpp: error, and the connection calls made in any order *)

MaxConnects == 4        \* successful connect calls in one run
MaxErrors == 1          \* error callbacks in one run

\* the codes error() reports as information, and two it reports as errors
InfoCodes == {2104, 2106, 2158}
ErrorCodes == InfoCodes \cup {200, 1100}
ErrorIds == {-1, 2001}

\* a variant that takes code 1100 (connectivity lost) as the end of the
\* connection
errorFatal(id, errorCode) ==
    /\ nErrors.cout + nErrors.cerr < MaxErrors
    /\ nErrors' = IF errorCode \in InfoCodes
                    THEN [nErrors EXCEPT !.cout = @ + 1]
                    ELSE [nErrors EXCEPT !.cerr = @ + 1]
    /\ m_connected' = (m_connected /\ errorCode # 1100)
    /\ UNCHANGED <<clientVars, queue, g_running, workerVars, producerVars,
                   mainPc, pumpPc, testVars, nConnects, nEDisconnects>>

\* TwsClient::error: one line on std::cout for an informational code, on
\* std::cerr for any other
error(id, errorCode) ==
    /\ nErrors.cout + nErrors.cerr < MaxErrors
    /\ nErrors' = IF errorCode \in InfoCodes
                    THEN [nErrors EXCEPT !.cout = @ + 1]
                    ELSE [nErrors EXCEPT !.cerr = @ + 1]
    /\ UNCHANGED <<clientVars, queue, g_running, workerVars, producerVars,
                   supervisorVars, testVars, nConnects, nEDisconnects>>

\* the feed reports an error or a status of the connection
FeedError == \E id \in ErrorIds, errorCode \in ErrorCodes : error(id, errorCode)

\* client.connect(...) called on a client that is alive
TestConnect(success) ==
    /\ mainPc = "client"
    /\ success => nConnects < MaxConnects
    /\ m_connected' = (m_connected \/ success)
    /\ nConnects' = IF success THEN nConnects + 1 ELSE nConnects
    /\ UNCHANGED <<clientVars, queue, g_running, workerVars, producerVars,
                   mainPc, pumpPc, testVars, nEDisconnects, nErrors>>

\* client.disconnect() called on a client that is alive
TestDisconnect ==
    /\ mainPc = "client"
    /\ m_connected' = FALSE
    /\ nEDisconnects' = nEDisconnects + eDisconnectCalls(m_connected)
    /\ UNCHANGED <<clientVars, queue, g_running, workerVars, producerVars,
                   mainPc, pumpPc, testVars, nConnects, nErrors>>

\* ~TwsClient() { disconnect(); }
TestDestroy ==
    /\ mainPc = "client"
    /\ mainPc' = "destroyed"
    /\ m_connected' = FALSE
    /\ nEDisconnects' = nEDisconnects + eDisconnectCalls(m_connected)
    /\ UNCHANGED <<clientVars, queue, g_running, workerVars, producerVars,
                   pumpPc, testVars, nConnects, nErrors>>

\* the callbacks of the feed reach the client only while it is alive
TestFeed ==
    /\ mainPc = "client"
    /\ connectionClosed \/ FeedError

\* TwsClient client(queue): m_connected{false}, no thread started
ClientConstructed ==
    /\ m_tickerToSymbol = [i \in {} |-> ""]
    /\ requests = {}
    /\ pendingRoute = <<>>
    /\ nSubs = 0
    /\ queue = <<>>
    /\ stateMap = [s \in {} |-> InstrumentStateDefault]
    /\ g_running = TRUE
    /\ workerPc = "check"
    /\ nDequeued = 0
    /\ nPublished = 0
    /\ nFailed = 0
    /\ nReconnects = 0
    /\ lastPublish = NoPublish
    /\ lastQuote = [s \in {} |-> TickUpdateDefault]
    /\ lastTrade = [s \in {} |-> TickUpdateDefault]
    /\ inFlight = <<>>
    /\ nDropped = 0
    /\ nUnknown = 0
    /\ m_connected = FALSE
    /\ mainPc = "client"
    /\ pumpPc = "unstarted"
    /\ testState = NoState
    /\ testJson = NoJson
    /\ nConnects = 0
    /\ nEDisconnects = 0
    /\ nErrors = NoErrors

ClientSpec ==
    /\ ClientConstructed
    /\ [][\/ \E success \in BOOLEAN : TestConnect(success)
          \/ TestDisconnect
          \/ TestDestroy
          \/ TestFeed]_vars

\* the bridge running after main's subscriptions, the feed reporting errors
ErrorSpec ==
    /\ MainSubscribed
    /\ [][\/ MainThread \/ MsgThread \/ processMsgs \/ Consumer
          \/ connectionClosed \/ signalHandler \/ FeedError]_vars

----------------------------------------------------------------------------
(* Serialization.h: formatTimestamp *)

\* a / b and a % b of C++ for b > 0: the quotient is truncated toward zero
\* and the remainder has the sign of a
CppDiv(a, b) == IF a >= 0 THEN a \div b ELSE -((-a) \div b)

CppMod(a, b) == a - b * CppDiv(a, b)

\* the decimal digits of n >= 0
RECURSIVE DecimalDigits(_)
DecimalDigits(n) ==
    IF n < 10 THEN <<n>> ELSE Append(DecimalDigits(n \div 10), n % 10)

\* operator<< of an int: a minus sign for a negative value, then the digits
IntText(n) == IF n < 0 THEN <<"-">> \o DecimalDigits(-n) ELSE DecimalDigits(n)

\* std::setfill('0') << std::setw(3): zeros on the left up to three
\* characters, nothing cut off
RECURSIVE SetW3(_)
SetW3(text) == IF Len(text) >= 3 THEN text ELSE SetW3(<<0>> \o text)

\* the seconds handed to std::gmtime and the milliseconds field written
\* between '.' and 'Z'
formatTimestamp(timestampMs) ==
    [seconds |-> CppDiv(timestampMs, 1000),
     milliseconds |-> CppMod(timestampMs, 1000),
     field |-> SetW3(IntText(CppMod(timestampMs, 1000)))]

MaxMs == 2001           \* timestamps from -MaxMs to MaxMs, and four far ones

TestTimestamps ==
    (-MaxMs..MaxMs) \cup {1700000000, 2147483647, -1700000500, -2147483647}

\* a timestamp chosen, formatTimestamp not yet called
FormatInit ==
    /\ m_tickerToSymbol = [i \in {} |-> ""]
    /\ requests = {}
    /\ pendingRoute = <<>>
    /\ nSubs = 0
    /\ queue = <<>>
    /\ stateMap = [s \in {} |-> InstrumentStateDefault]
    /\ g_running = TRUE
    /\ workerPc = "check"
    /\ nDequeued = 0
    /\ nPublished = 0
    /\ nFailed = 0
    /\ nReconnects = 0
    /\ lastPublish = NoPublish
    /\ lastQuote = [s \in {} |-> TickUpdateDefault]
    /\ lastTrade = [s \in {} |-> TickUpdateDefault]
    /\ inFlight = <<>>
    /\ nDropped = 0
    /\ nUnknown = 0
    /\ m_connected = TRUE
    /\ mainPc = "loop"
    /\ pumpPc = "check"
    /\ testState \in TestTimestamps
    /\ testJson = NoJson
    /\ nConnects = 1
    /\ nEDisconnects = 0
    /\ nErrors = NoErrors

\* std::string text = formatTimestamp(timestampMs);
TestFormat ==
    /\ ~testJson.called
    /\ testJson' = [called |-> TRUE, payload |-> formatTimestamp(testState)]
    /\ UNCHANGED <<clientVars, queue, g_running, workerVars, producerVars,
                   supervisorVars, testState, connectionVars>>

FormatSpec == FormatInit /\ [][TestFormat]_vars

----------------------------------------------------------------------------
(* Properties of the worker loop *)

\* the step in which the worker dequeues and processes Head(queue)
WorkerStep == nDequeued' = nDequeued + 1

\* the symbol the worker resolves the update at the head of the queue to
EventSymbol == LadderSymbol(Head(queue).tickerId)

TickPublished == lastPublish.channel[1] = "TWS:TICKS:"

\* the latest publish was made for the latest update dequeued
JustPublished == nDequeued > 0 /\ lastPublish.event = nDequeued

QuoteHalf ==
    {"bidPrice", "askPrice", "bidSize", "askSize", "quoteTimestamp", "hasQuote"}

TradeHalf ==
    {"lastPrice", "lastSize", "pastLimit", "tradeTimestamp", "hasTrade"}

IdentityFields == {"symbol", "tickerId"}

\* the state of a symbol before an update: its entry, or what operator[]
\* would insert
Before(symbol) ==
    IF symbol \in DOMAIN stateMap THEN stateMap[symbol]
    ELSE InstrumentStateDefault

ChangedFields(old, new) ==
    {f \in DOMAIN InstrumentStateDefault : old[f] # new[f]}

OthersUntouched(symbol) ==
    \A t \in DOMAIN stateMap' \ {symbol} :
        t \in DOMAIN stateMap /\ stateMap'[t] = stateMap[t]

\* C1: a tick snapshot is published for a symbol only when that symbol's
\* state has hasQuote and hasTrade at the moment of publishing, and only
\* for a symbol that has received both a Quote and a Trade update.
C1_EmitReadyGating ==
    TickPublished =>
        /\ lastPublish.channel[2] \in DOMAIN lastQuote
        /\ lastPublish.channel[2] \in DOMAIN lastTrade
        /\ JustPublished =>
              /\ lastPublish.channel[2] \in DOMAIN stateMap
              /\ stateMap[lastPublish.channel[2]].hasQuote
              /\ stateMap[lastPublish.channel[2]].hasTrade

\* two one-half updates went by without a publish, the third one published
C1_Witness ==
    /\ TickPublished
    /\ nDequeued = 3
    /\ nPublished = 1
    /\ lastPublish.event = 3

\* C2: once a symbol's state is emit-ready, every further Quote or Trade
\* update dequeued for that symbol makes exactly one publish attempt, on
\* that symbol's tick channel.
C2_ReEmission ==
    [][(/\ WorkerStep
        /\ Head(queue).type \in {"BidAsk", "AllLast"}
        /\ EventSymbol \in DOMAIN stateMap
        /\ stateMap[EventSymbol].hasQuote
        /\ stateMap[EventSymbol].hasTrade)
       => (/\ nPublished' = nPublished + 1
           /\ lastPublish'.event = nDequeued'
           /\ lastPublish'.channel = <<"TWS:TICKS:", EventSymbol>>)]_vars

\* the update after the one that completed the state was published too
C2_Witness ==
    /\ TickPublished
    /\ nPublished = 2
    /\ lastPublish.event = 3

\* C3: a Bar update leaves the state map as it was.
C3_BarIsolation ==
    [][(WorkerStep /\ Head(queue).type = "Bar") => stateMap' = stateMap]_vars

\* C4: an update whose id the worker cannot resolve creates and modifies no
\* InstrumentState, and the loop goes on to the next update.
C4_RoutingMissSafety ==
    [][(WorkerStep /\ EventSymbol = "UNKNOWN")
       => (stateMap' = stateMap /\ workerPc' = "check")]_vars

\* C5: a Quote or Trade update whose id the worker cannot resolve causes no
\* publish, and such updates never add up to an emit-ready state.
C5_UnresolvedDiscarded ==
    [][(/\ WorkerStep
        /\ Head(queue).type \in {"BidAsk", "AllLast"}
        /\ EventSymbol = "UNKNOWN")
       => (/\ nPublished' = nPublished
           /\ ~(/\ "UNKNOWN" \in DOMAIN stateMap'
                /\ stateMap'["UNKNOWN"].hasQuote
                /\ stateMap'["UNKNOWN"].hasTrade))]_vars

\* C6: the symbol an update is attributed to (the state updated, the channel
\* published on) is the symbol of its id in the routing table.
C6_RoutingTableIsTruth ==
    [][WorkerStep =>
        /\ nPublished' > nPublished =>
              lastPublish'.channel[2] = m_tickerToSymbol[Head(queue).tickerId]
        /\ Head(queue).type \in {"BidAsk", "AllLast"} =>
              /\ m_tickerToSymbol[Head(queue).tickerId] \in DOMAIN stateMap'
              /\ OthersUntouched(m_tickerToSymbol[Head(queue).tickerId])]_vars

C8_HalfIsolationStrict ==
    [][(WorkerStep /\ EventSymbol \in DOMAIN stateMap) =>
        /\ Head(queue).type = "BidAsk" =>
              ChangedFields(stateMap[EventSymbol], stateMap'[EventSymbol])
                  \subseteq QuoteHalf
        /\ Head(queue).type = "AllLast" =>
              ChangedFields(stateMap[EventSymbol], stateMap'[EventSymbol])
                  \subseteq TradeHalf]_vars

\* C8, amended: a Quote update changes only the quote half and the identity
\* fields symbol and tickerId, a Trade update only the trade half and the
\* identity fields; the other half, conId and the exchange label stay, and
\* so does every other symbol's state.
C8_HalfIsolation ==
    [][WorkerStep =>
        /\ Head(queue).type = "BidAsk" =>
              /\ ChangedFields(Before(EventSymbol), stateMap'[EventSymbol])
                    \subseteq QuoteHalf \cup IdentityFields
              /\ OthersUntouched(EventSymbol)
        /\ Head(queue).type = "AllLast" =>
              /\ ChangedFields(Before(EventSymbol), stateMap'[EventSymbol])
                    \subseteq TradeHalf \cup IdentityFields
              /\ OthersUntouched(EventSymbol)]_vars

\* a Quote update was merged into a state that held a trade half
C8_Witness ==
    \E s \in DOMAIN lastQuote \cap DOMAIN lastTrade :
        /\ stateMap[s].tickerId = lastQuote[s].tickerId
        /\ stateMap[s].lastPrice = lastTrade[s].lastPrice
        /\ stateMap[s].lastPrice # 0
        /\ stateMap[s].bidPrice = lastQuote[s].bidPrice

\* C9: a publish that throws is caught where it was made, the loop ends
\* only when the running flag is false, and after a failure the next update
\* that triggers an emission is passed to publish.
C9_PublishFailureSurvival ==
    [][/\ workerPc' = "stopped" => ~g_running'
       /\ WorkerStep =>
            /\ nFailed' = nFailed + 1 => workerPc' = "check"
            /\ (/\ nFailed > 0
                /\ \/ Head(queue).type = "Bar"
                   \/ /\ stateMap'[EventSymbol].hasQuote
                      /\ stateMap'[EventSymbol].hasTrade)
               => (/\ nPublished' = nPublished + 1
                   /\ lastPublish'.event = nDequeued')]_vars

\* a publish threw, and a later update was published
C9_Witness ==
    /\ nFailed >= 1
    /\ nPublished > nFailed
    /\ lastPublish.result = "returned"
    /\ JustPublished
    /\ workerPc = "check"

\* C10: a tick snapshot handed to publish carries the quote half of the
\* latest Quote update and the trade half of the latest Trade update
\* dequeued for its symbol.
C10_LastWriteWins ==
    (TickPublished /\ JustPublished) =>
        LET q == lastQuote[lastPublish.channel[2]]
            t == lastTrade[lastPublish.channel[2]]
            m == lastPublish.message
        IN  /\ m.price.bid = q.bidPrice
            /\ m.price.ask = q.askPrice
            /\ m.size.bid = q.bidSize
            /\ m.size.ask = q.askSize
            /\ m.timestamps.quote = q.timestamp
            /\ m.price.last = t.lastPrice
            /\ m.size.last = t.lastSize
            /\ m.timestamps.trade = t.timestamp
            /\ m.tickAttrib.pastLimit = t.pastLimit

\* the publish before this one threw; this snapshot has the second quote
C10_Witness ==
    /\ TickPublished
    /\ JustPublished
    /\ nPublished = 2
    /\ nFailed = 1
    /\ lastPublish.result = "returned"
    /\ lastPublish.message.price.bid = 102
    /\ lastPublish.message.price.last = 501

----------------------------------------------------------------------------
(* Properties of the queue between the callbacks and the worker *)

\* the first update of seq that carries the tickerId, <<>> when there is none
RECURSIVE FirstWithId(_, _)
FirstWithId(seq, tickerId) ==
    IF seq = <<>> THEN <<>>
    ELSE IF Head(seq).tickerId = tickerId THEN Head(seq)
    ELSE FirstWithId(Tail(seq), tickerId)

\* C11: per-instrument FIFO. Whenever the worker dequeues an update, it is
\* the oldest update with its tickerId among those the callbacks got
\* accepted and the worker has not received yet, so the updates of one
\* tickerId are dequeued in the order they were enqueued, whatever the
\* interleaving of callbacks and worker steps.
C11_PerInstrumentFifo ==
    [][WorkerStep => Head(queue) = FirstWithId(inFlight, Head(queue).tickerId)]_vars

\* the worker has received one update of a tickerId while a later, different
\* update of the same tickerId is still waiting
C11_Witness ==
    /\ nDequeued = 1
    /\ inFlight # <<>>
    /\ \E s \in DOMAIN lastQuote :
          /\ lastQuote[s].tickerId = Head(inFlight).tickerId
          /\ lastQuote[s].timestamp < Head(inFlight).timestamp

\* C12: bounded capacity. As long as the worker has drained nothing, the
\* queue holds exactly the accepted updates in the order they were accepted
\* and never more than QueueCapacity of them, and a callback has reported a
\* drop only with QueueCapacity updates in the queue: the first
\* QueueCapacity calls of try_enqueue succeed, the next one fails and the
\* callback returns, and the accepted updates stay in the queue in order.
C12_BoundedCapacity ==
    nDequeued = 0 =>
        /\ queue = inFlight
        /\ Len(queue) <= QueueCapacity
        /\ nDropped > 0 => Len(queue) = QueueCapacity

\* a callback found the queue full of undrained updates and dropped its own
C12_Witness ==
    nDequeued = 0 /\ nDropped = 1 /\ Len(queue) = QueueCapacity

\* the callback that answers a request of the given kind
CallbackOf(reqId, kind, v) ==
    IF kind = "BidAsk" THEN tickByTickBidAsk(reqId, v)
    ELSE IF kind = "AllLast" THEN tickByTickAllLast(reqId, v)
    ELSE IF kind = "HistoricalData"
      THEN \E now \in Clock : historicalData(reqId, now, v)
    ELSE realtimeBar(reqId, v)

\* the feed may still deliver an update of a routed request
MayDeliver(reqId, kind) ==
    /\ <<reqId, kind>> \in requests
    /\ reqId \in DOMAIN m_tickerToSymbol
    /\ nDequeued + Len(queue) + nDropped + nUnknown < MaxEvents

\* C13: drop on saturation. A callback that reports a drop found the queue
\* full and returns with the queue, the accepted updates and the worker's
\* state as they were: the update is enqueued neither then nor later. And a
\* callback can run to its end whatever the worker does, also when the
\* queue is full: the producer never waits for the consumer.
C13_DropOnSaturation ==
    /\ [][nDropped' # nDropped =>
            /\ nDropped' = nDropped + 1
            /\ Len(queue) = QueueCapacity
            /\ queue' = queue
            /\ inFlight' = inFlight
            /\ UNCHANGED workerVars]_vars
    /\ [](\A r \in ReqIds, k \in {"BidAsk", "AllLast", "HistoricalData",
                                   "RealTimeBars"} :
            MayDeliver(r, k) => ENABLED CallbackOf(r, k, 1))

\* an update was dropped, and the worker has since received every accepted
\* update and no other
C13_Witness ==
    nDropped = 1 /\ nDequeued = QueueCapacity /\ queue = <<>> /\ inFlight = <<>>

\* e is an element of seq
InSeq(e, seq) == \E i \in 1..Len(seq) : seq[i] = e

\* C14: queue integrity with one producer and one consumer running
\* concurrently. The queue holds as many updates as were accepted and not
\* yet received; every update the worker dequeues is one of them and leaves
\* them for good, so none is made up and none is dequeued twice; and an
\* accepted update that waits is dequeued eventually unless the running
\* flag is cleared.
C14_QueueIntegrity ==
    /\ [](Len(queue) = Len(inFlight))
    /\ [][WorkerStep =>
            /\ InSeq(Head(queue), inFlight)
            /\ Len(inFlight') = Len(inFlight) - 1
            /\ Len(queue') = Len(queue) - 1]_vars
    /\ \A k \in 0..MaxEvents :
          (nDequeued = k /\ inFlight # <<>>) ~> (nDequeued > k \/ ~g_running)

\* the worker has dequeued updates while the callbacks enqueued more
C14_Witness ==
    g_running /\ nDequeued = 2 /\ Len(inFlight) = 1 /\ nDropped = 0

----------------------------------------------------------------------------
(* Properties of the channels *)

\* the worker called redis.publish once for the update it dequeues in this
\* step, on the channel
PublishedOnceOn(channel) ==
    /\ nPublished' = nPublished + 1
    /\ lastPublish'.event = nDequeued'
    /\ lastPublish'.channel = channel

\* C18: channel namespace separation. A dequeued Bar update makes the
\* worker call publish exactly once, on TWS:BARS:<symbol>, also when the
\* state of the symbol is emit-ready; a BidAsk or AllLast update makes it
\* call publish at most once, and then on TWS:TICKS:<symbol>.
C18_ChannelSeparation ==
    [][WorkerStep =>
        IF Head(queue).type = "Bar"
          THEN PublishedOnceOn(<<"TWS:BARS:", EventSymbol>>)
          ELSE \/ nPublished' = nPublished
               \/ PublishedOnceOn(<<"TWS:TICKS:", EventSymbol>>)]_vars

\* a Bar of a symbol whose state is emit-ready was published on its BARS
\* channel
C18_Witness ==
    /\ JustPublished
    /\ lastPublish.channel = <<"TWS:BARS:", "SPY">>
    /\ "SPY" \in DOMAIN lastQuote
    /\ "SPY" \in DOMAIN lastTrade
    /\ ReadyToEmit(stateMap["SPY"])

\* C19: no retry, no automatic reconnect. The worker calls publish at most
\* once for each update it dequeues and at no other time, so a snapshot
\* whose publish threw is neither sent again nor kept for later, and it
\* never calls reconnect, however many calls of publish throw.
C19_NoRetryNoReconnect ==
    /\ [][/\ WorkerStep => nPublished' <= nPublished + 1
          /\ nPublished' # nPublished =>
                /\ WorkerStep
                /\ lastPublish'.event = nDequeued'
          /\ nFailed' # nFailed =>
                /\ nFailed' = nFailed + 1
                /\ nPublished' = nPublished + 1]_vars
    /\ [](nReconnects = 0 /\ nFailed <= nPublished)

\* every call of publish threw, one update after the other
C19_Witness ==
    nFailed = 2 /\ nPublished = 2 /\ lastPublish.result = "threw"

\* C20: first completion. From an empty state map, after one Quote and one
\* Trade of a symbol, in either order, the worker has called publish exactly
\* once, at the second update, on the TICKS channel of the symbol, with bid
\* and ask of the Quote, last of the Trade, the two timestamps of the two
\* updates and the later of them as the timestamp of the snapshot; the
\* first update alone made no publish.
C20_FirstCompletion ==
    /\ nDequeued = 1 => nPublished = 0
    /\ \A s \in DOMAIN lastQuote \cap DOMAIN lastTrade :
          nDequeued = 2 =>
            LET q == lastQuote[s]
                t == lastTrade[s]
                m == lastPublish.message
            IN  /\ nPublished = 1
                /\ lastPublish.event = 2
                /\ lastPublish.channel = <<"TWS:TICKS:", s>>
                /\ s = m_tickerToSymbol[q.tickerId]
                /\ s = m_tickerToSymbol[t.tickerId]
                /\ m.instrument = s
                /\ m.price.bid = q.bidPrice
                /\ m.price.ask = q.askPrice
                /\ m.price.last = t.lastPrice
                /\ m.timestamps.quote = q.timestamp
                /\ m.timestamps.trade = t.timestamp
                /\ m.timestamp >= q.timestamp
                /\ m.timestamp >= t.timestamp
                /\ m.timestamp \in {q.timestamp, t.timestamp}

\* the Trade came first, the later Quote completed the state; the snapshot
\* carries the time of the Trade, the later of the two
C20_Witness ==
    /\ nDequeued = 2
    /\ nPublished = 1
    /\ lastPublish.event = 2
    /\ stateMap["AAPL"].tickerId = 1001
    /\ lastPublish.message.timestamps.quote = 1000
    /\ lastPublish.message.timestamps.trade = 2000
    /\ lastPublish.message.timestamp = 2000

----------------------------------------------------------------------------
(* Properties of the subscriptions *)

\* C17: the routing entry is written before the request is sent. Every
\* request the feed has been sent finds the entry of its id in
\* m_tickerToSymbol, so a callback for a subscribed id never misses it.
C17_RouteBeforeRequest ==
    \A req \in requests : req[1] \in DOMAIN m_tickerToSymbol

----------------------------------------------------------------------------
(* Properties of the supervisor *)

\* C16: cooperative shutdown without flush. Once g_running is false the
\* worker dequeues at most one more update (the one it was about to
\* process), it ends its loop, and from then on it dequeues nothing and
\* publishes nothing, so the updates left in the queue stay there
\* unpublished.
C16_CooperativeShutdown ==
    /\ \A k \in 0..MaxEvents :
          [](~g_running /\ nDequeued = k => [](nDequeued <= k + 1))
    /\ [][workerPc = "stopped" =>
            /\ UNCHANGED workerVars
            /\ Len(queue') >= Len(queue)]_vars
    /\ (~g_running) ~> (workerPc = "stopped")

\* the worker has ended its loop and left updates in the queue
C16_Witness ==
    workerPc = "stopped" /\ nDequeued > 0 /\ Len(queue) = QueueCapacity

\* C15: a feed disconnect does not deadlock the process. Once the feed has
\* closed the connection, main leaves its monitor loop and its shutdown
\* sequence (disconnect, join msgThread, join workerThread) runs to its end.
C15_DisconnectCompletes ==
    (~m_connected) ~> (mainPc = "done")

----------------------------------------------------------------------------
(* Properties of serializeState *)

\* C21: the timestamp of the snapshot is the later of quoteTimestamp and
\* tradeTimestamp of the state, whatever the two values are, and
\* timestamps.quote and timestamps.trade carry the two values as they are.
C21_SnapshotTimestamp ==
    testJson.called =>
        /\ testJson.payload.timestamp >= testState.quoteTimestamp
        /\ testJson.payload.timestamp >= testState.tradeTimestamp
        /\ testJson.payload.timestamp \in {testState.quoteTimestamp,
                                           testState.tradeTimestamp}
        /\ testJson.payload.timestamps.quote = testState.quoteTimestamp
        /\ testJson.payload.timestamps.trade = testState.tradeTimestamp

\* a state whose quote is later than its trade was serialized
C21_Witness ==
    /\ testJson.called
    /\ testState.quoteTimestamp > testState.tradeTimestamp
    /\ testJson.payload.timestamp = testState.quoteTimestamp

\* C22: serializeState is total and faithful. For every state, a default
\* one with neither flag set included, it returns a document that is not
\* empty, whose instrument is the symbol of the state and whose price.bid,
\* price.ask and price.last are bidPrice, askPrice and lastPrice.
C22_TotalAndFaithful ==
    testJson.called =>
        /\ testJson.payload # <<>>
        /\ testJson.payload.instrument = testState.symbol
        /\ testJson.payload.price.bid = testState.bidPrice
        /\ testJson.payload.price.ask = testState.askPrice
        /\ testJson.payload.price.last = testState.lastPrice

\* the default state with only its symbol set was serialized
C22_Witness ==
    /\ testJson.called
    /\ testState = [InstrumentStateDefault EXCEPT !.symbol = "TEST"]
    /\ testJson.payload.instrument = "TEST"

----------------------------------------------------------------------------
(* Properties of the order of processing *)

\* C24: publish order follows dequeue order. The worker takes one update
\* at a time and is back at the head of its loop, with lookup, merge,
\* serialization and publish of that update done, before it takes the next;
\* every call of publish is for the update just dequeued, carries the state
\* with that update merged in (or the bar itself), and is for a later
\* update than the call before it.
C24_PublishInDequeueOrder ==
    [][/\ WorkerStep =>
            /\ workerPc = "dequeue"
            /\ workerPc' = "check"
            /\ queue' = Tail(queue)
            /\ stateMap' = StateMapAfter(stateMap, Head(queue))
       /\ nPublished' # nPublished =>
            /\ WorkerStep
            /\ lastPublish'.event = nDequeued'
            /\ lastPublish'.event > lastPublish.event
            /\ lastPublish'.message =
                  IF Head(queue).type = "Bar"
                    THEN serializeBarData(EventSymbol, Head(queue))
                    ELSE serializeState(stateMap'[EventSymbol])
       /\ nDequeued' # nDequeued => WorkerStep]_vars

\* two updates were published one after the other, the second one a
\* snapshot that carries the data of the update it was published for
C24_Witness ==
    /\ nPublished = 2
    /\ nDequeued = 3
    /\ lastPublish.event = 3
    /\ TickPublished
    /\ workerPc = "check"

\* the worker called publish in this step and the sink delivered the
\* message to no subscriber
PublishedToNobody ==
    /\ WorkerProcess("nosubs")
    /\ nPublished' # nPublished

\* C25: zero subscribers is not an error. A publish that the sink delivers
\* to no subscriber returns normally, and the worker is left exactly as by
\* a publish that reached a subscriber: no failure counted, no reconnect,
\* the same state map and queue, back at the head of its loop; the only
\* difference is the number of receivers, which nothing reads.
C25_ZeroSubscribersNoError ==
    [][PublishedToNobody =>
          /\ lastPublish'.result = "returned"
          /\ lastPublish' =
                [Attempt(Emissions(stateMap, Head(queue))[1], "delivered",
                         nDequeued') EXCEPT !.receivers = 0]
          /\ nFailed' = nFailed
          /\ nReconnects' = nReconnects
          /\ workerPc' = AfterPublish("delivered")
          /\ stateMap' = StateMapAfter(stateMap, Head(queue))
          /\ queue' = Tail(queue)
          /\ g_running' = g_running]_vars

\* the second message published went out to no subscriber, publish
\* returned, and no failure was counted
C25_Witness ==
    /\ nPublished = 2
    /\ lastPublish.result = "returned"
    /\ lastPublish.receivers = 0
    /\ nFailed = 0
    /\ workerPc = "check"

----------------------------------------------------------------------------
(* Properties of instrument identity *)

\* the ids recorded for a symbol at subscription
SubscribedIds(symbol) ==
    {i \in DOMAIN m_tickerToSymbol : m_tickerToSymbol[i] = symbol}

\* C26: snapshot identity. Every tick snapshot published carries as conId
\* an id recorded at subscription for the symbol it names, not the default
\* value.
C26_SnapshotIdentity ==
    TickPublished =>
        /\ lastPublish.message.conId # InstrumentStateDefault.conId
        /\ lastPublish.message.conId
              \in SubscribedIds(lastPublish.message.instrument)

\* the worker has dequeued a Quote under id and a Trade under the id paired
\* with it
PairDequeued(id) ==
    /\ \E k \in DOMAIN lastQuote : lastQuote[k].tickerId = id
    /\ \E k \in DOMAIN lastTrade :
          lastTrade[k].tickerId = id + TickByTickOffset

\* C27: tick-by-tick id pairing. For every symbol and id subscribed with
\* subscribeTickByTick, once a Quote under id and a Trade under id + 10000
\* were processed, both are in the one state of that symbol and the symbol
\* is emit-ready.
C27_TickByTickPairing ==
    \A id \in DOMAIN m_tickerToSymbol :
        (/\ id + TickByTickOffset \in DOMAIN m_tickerToSymbol
         /\ PairDequeued(id)) =>
            /\ m_tickerToSymbol[id] \in DOMAIN stateMap
            /\ ReadyToEmit(stateMap[m_tickerToSymbol[id]])
            /\ stateMap[m_tickerToSymbol[id]].symbol = m_tickerToSymbol[id]

----------------------------------------------------------------------------
(* Properties of the callbacks *)

\* a callback got as far as try_enqueue in this step
EnqueueAttempted == Len(queue') > Len(queue) \/ nDropped' # nDropped

\* C28: producer-side routing miss. A callback whose request id is not in
\* the routing table enqueues nothing and returns with the queue, the
\* routing table, the connection and the worker as they were. A callback
\* that gets to try_enqueue has a routed id and makes exactly one attempt:
\* either one update with that id is appended or one drop is reported.
C28_RoutingMiss ==
    [][/\ nUnknown' # nUnknown =>
            /\ nUnknown' = nUnknown + 1
            /\ queue' = queue
            /\ inFlight' = inFlight
            /\ nDropped' = nDropped
            /\ g_running' = g_running
            /\ UNCHANGED <<clientVars, workerVars, supervisorVars>>
       /\ EnqueueAttempted =>
            /\ nUnknown' = nUnknown
            /\ \/ /\ nDropped' = nDropped
                  /\ Len(queue') = Len(queue) + 1
                  /\ SubSeq(queue', 1, Len(queue)) = queue
                  /\ queue'[Len(queue')].tickerId \in DOMAIN m_tickerToSymbol
               \/ /\ nDropped' = nDropped + 1
                  /\ queue' = queue]_vars

\* a callback with an id that is not routed has returned, and the queue
\* holds what a callback with a routed id enqueued
C28_Witness ==
    /\ nUnknown = 1
    /\ Len(queue) = 1
    /\ nDropped = 0
    /\ nDequeued = 0
    /\ queue[1].tickerId \in DOMAIN m_tickerToSymbol

\* the fields of the three variants of a TickUpdate
BidAskFields(u) == <<u.bidPrice, u.askPrice, u.bidSize, u.askSize>>

AllLastFields(u) == <<u.lastPrice, u.lastSize, u.pastLimit>>

BarFields(u) ==
    <<u.open, u.high, u.low, u.close, u.volume, u.wap, u.barCount>>

\* only the fields of the variant selected by type are set
VariantOnly(u) ==
    IF u.type = "BidAsk"
      THEN /\ AllLastFields(u) = AllLastFields(TickUpdateDefault)
           /\ BarFields(u) = BarFields(TickUpdateDefault)
    ELSE IF u.type = "AllLast"
      THEN /\ BidAskFields(u) = BidAskFields(TickUpdateDefault)
           /\ BarFields(u) = BarFields(TickUpdateDefault)
    ELSE /\ u.type = "Bar"
         /\ BidAskFields(u) = BidAskFields(TickUpdateDefault)
         /\ AllLastFields(u) = AllLastFields(TickUpdateDefault)

\* the update with other values in the fields of the variants not selected
Overwritten(u) ==
    IF u.type = "BidAsk"
      THEN [u EXCEPT !.lastPrice = 999, !.lastSize = 999, !.pastLimit = TRUE,
                     !.open = 999, !.high = 999, !.low = 999, !.close = 999,
                     !.volume = 999, !.wap = 999, !.barCount = 999]
    ELSE IF u.type = "AllLast"
      THEN [u EXCEPT !.bidPrice = 999, !.askPrice = 999, !.bidSize = 999,
                     !.askSize = 999,
                     !.open = 999, !.high = 999, !.low = 999, !.close = 999,
                     !.volume = 999, !.wap = 999, !.barCount = 999]
    ELSE [u EXCEPT !.bidPrice = 999, !.askPrice = 999, !.bidSize = 999,
                   !.askSize = 999, !.lastPrice = 999, !.lastSize = 999,
                   !.pastLimit = TRUE]

\* the type of the update a callback has just enqueued is the callback's
EnqueuedTypeMatches ==
    Len(queue') > Len(queue) =>
        \A r \in DOMAIN m_tickerToSymbol :
            /\ (\E v \in Seeds : tickByTickBidAsk(r, v)) =>
                    queue'[Len(queue')].type = "BidAsk"
            /\ (\E v \in Seeds : tickByTickAllLast(r, v)) =>
                    queue'[Len(queue')].type = "AllLast"
            /\ (\E now \in Clock, v \in BarSeeds :
                    historicalData(r, now, v)) =>
                    queue'[Len(queue')].type = "Bar"
            /\ (\E v \in BarSeeds : realtimeBar(r, v)) =>
                    queue'[Len(queue')].type = "Bar"

\* C29: payload variant discipline. Every update a callback enqueues has
\* the type of the callback, with the fields of its variant set and the
\* fields of the other two variants at their defaults; and what the worker
\* merges and publishes for an update does not depend on the fields of the
\* variants its type does not select.
C29_VariantDiscipline ==
    /\ [](\A k \in 1..Len(queue) : VariantOnly(queue[k]))
    /\ [][EnqueuedTypeMatches]_vars
    /\ [](queue # <<>> =>
            /\ StateMapAfter(stateMap, Overwritten(Head(queue)))
                  = StateMapAfter(stateMap, Head(queue))
            /\ Emissions(stateMap, Overwritten(Head(queue)))
                  = Emissions(stateMap, Head(queue)))

\* a Quote and a Trade were merged and published, and a bar is next in
\* the queue
C29_Witness ==
    /\ nDequeued = 2
    /\ TickPublished
    /\ queue # <<>>
    /\ Head(queue).type = "Bar"
    /\ Head(queue).open # TickUpdateDefault.open

----------------------------------------------------------------------------
(* Properties of the message pump *)

\* a feed callback ran in this step
Dispatched == EnqueueAttempted \/ nUnknown' # nUnknown

\* C30: no dispatch after disconnect. Under every interleaving of the pump
\* with main and the feed, a callback is dispatched only while the client
\* is connected and before disconnect() has returned; and once the pump
\* has seen the running flag false it starts no further processMessages.
C30_NoDispatchAfterDisconnect ==
    [][/\ Dispatched =>
            /\ isConnected
            /\ mainPc \in {"loop", "disconnect"}
       /\ (pumpPc = "check" /\ ~g_running /\ pumpPc' # pumpPc) =>
            pumpPc' = "done"
       /\ pumpPc = "done" => pumpPc' = "done"]_vars

----------------------------------------------------------------------------
(* Properties of the start of main *)

\* main is on the path it takes when client.connect() returned false
ConnectFailedPath == mainPc \in {"connectFailed", "joinWorkerFailed", "exit1"}

\* C31: feed connect failure path. When connect fails after the worker was
\* started, main clears the running flag and joins the worker before it
\* returns 1: the worker stops, the message thread and the reader thread
\* were never started, no subscription was issued and no update was ever
\* enqueued.
C31_ConnectFailurePath ==
    /\ [](ConnectFailedPath =>
            /\ requests = {}
            /\ DOMAIN m_tickerToSymbol = {}
            /\ nSubs = 0
            /\ queue = <<>>
            /\ nDequeued = 0 /\ nDropped = 0 /\ nUnknown = 0
            /\ pumpPc = "unstarted"
            /\ nConnects = 0 /\ nEDisconnects = 0
            /\ ~isConnected)
    /\ [](mainPc \in {"joinWorkerFailed", "exit1"} => ~g_running)
    /\ [](mainPc = "exit1" => workerPc = "stopped")
    /\ (mainPc = "connectFailed") ~> (mainPc = "exit1")

\* connect failed and main returned after the worker had stopped
C31_Witness ==
    /\ mainPc = "exit1"
    /\ workerPc = "stopped"
    /\ ~g_running
    /\ nConnects = 0

----------------------------------------------------------------------------
(* Properties of the connection *)

\* C32: disconnect is idempotent. Over any sequence of connect, disconnect,
\* connectionClosed and destructor calls, eDisconnect is called at most
\* once for each connect that succeeded, and only on a client that is
\* connected; after disconnect(), connectionClosed() or the destructor
\* isConnected() is false, and it becomes true again only by a connect
\* that succeeds.
C32_DisconnectIdempotent ==
    /\ [](nEDisconnects <= nConnects)
    /\ [][/\ nEDisconnects' # nEDisconnects =>
               /\ nEDisconnects' = nEDisconnects + 1
               /\ isConnected
          /\ (TestDisconnect \/ TestDestroy \/ connectionClosed) =>
               ~isConnected'
          /\ (~isConnected /\ isConnected') =>
               nConnects' = nConnects + 1]_vars

\* two connects succeeded, the client was destroyed, and eDisconnect was
\* called once only: the other connection was closed by the feed
C32_Witness ==
    /\ nConnects = 2
    /\ nEDisconnects = 1
    /\ mainPc = "destroyed"
    /\ ~isConnected

\* C33: feed error notifications are non-fatal and effect-free. A call of
\* error, with an informational code or any other, writes one line and
\* leaves the connection flag, the routing table, the requests and the
\* queue as they were; the message thread, the worker and main stay where
\* they are and the running flag is not touched, so none of them stops.
C33_ErrorEffectFree ==
    [][nErrors' # nErrors =>
          /\ nErrors'.cout + nErrors'.cerr = nErrors.cout + nErrors.cerr + 1
          /\ isConnected' = isConnected
          /\ UNCHANGED <<clientVars, queue, inFlight, g_running>>
          /\ UNCHANGED <<pumpPc, workerPc, mainPc, stateMap>>]_vars

\* the feed has reported an error that is not informational, and the
\* client is connected, the message thread dispatching, the worker at work
C33_Witness ==
    /\ nErrors.cerr = 1
    /\ isConnected
    /\ g_running
    /\ pumpPc = "process"
    /\ workerPc = "dequeue"
    /\ queue # <<>>

----------------------------------------------------------------------------
(* Properties of formatTimestamp *)

\* C34: formatTimestamp splits the timestamp ts into seconds s and
\* milliseconds m with 0 <= m <= 999 and s * 1000 + m = ts, and writes m as
\* three digits, for every ts, multiples of 1000 or not.
C34_TimestampSplit ==
    testJson.called =>
        /\ testJson.payload.milliseconds >= 0
        /\ testJson.payload.milliseconds <= 999
        /\ testJson.payload.seconds * 1000 + testJson.payload.milliseconds
              = testState
        /\ Len(testJson.payload.field) = 3
        /\ \A k \in 1..3 : testJson.payload.field[k] \in 0..9

====
